---------------------------- MODULE Spec2Model ----------------------------
(***************************************************************************)
(* A model of the read path of graphite's webapp:                          *)
(*   webapp/graphite/render/datalib.py  (TimeSeries, CarbonLinkPool,       *)
(*                                       recv_exactly, fetchDataLocal,     *)
(*                                       mergeResults)                     *)
(*   webapp/graphite/storage.py         (Store, Query, the finder, nodes)  *)
(*                                                                         *)
(* The module holds one specification per component; the variables of the  *)
(* components a specification does not exercise stay at their idle value.  *)
(***************************************************************************)
EXTENDS Integers, Sequences, FiniteSets, TLC

VARIABLES
  \* mergeResults (datalib.py 329-349)
  dbResults,      \* <<>> (empty) or <<timeInfo, values>>, timeInfo = <<start, end, step>>
  cacheResults,   \* sequence of <<timestamp, value>>
  merged,         \* what mergeResults returned
  mpc,            \* "call" before the call, "returned" after it, "off" when idle
  \* TimeSeries (datalib.py 36-97)
  tsValues,          \* the list the TimeSeries is: its raw samples
  created,           \* the values the TimeSeries was created with
  abandoned,         \* the factors of the traversals dropped before their end
  consolidationFunc, \* "sum" or "average"
  valuesPerPoint,    \* set by consolidate()
  gen,               \* position of the traversal: "idle", "plain", "loop", "tail", "done"
  pos,               \* how many raw samples list.__iter__ has handed out
  buf,               \* the generator's buffer
  out,               \* the values the traversal has yielded so far
  \* Store.find (storage.py 33-98)
  pattern,           \* Query.pattern, a sequence of characters
  available,         \* available[r]: RemoteStore r's liveness flag
  spc,               \* position of the find generator
  dirIdx,            \* index in self.directories of the root being searched
  matchIdx,          \* matches the finder of that root has produced so far
  requested,         \* whether the remote_requests list has been built
  remote_requests,   \* the peers a find request was issued to, in order
  reqIdx,            \* index in remote_requests of the request being read
  resIdx,            \* results read from that request so far
  found,             \* find_all's set of metric paths
  event,             \* what the last step consumed: a local match or a remote result
  yieldedNow,        \* the node the last step made Store.find yield, if any
  matchedDirs,       \* the roots whose finder has produced a match
  answeredPeers,     \* the peers whose request has returned a result
  seenNominal,       \* metric_path of every node yielded in this find
  seenReal,          \* real_metric of every node yielded in this find
  \* CarbonLinkPool (datalib.py 101-182)
  connections,       \* connections[h]: the pooled sockets of host h
  last_failure,      \* last_failure[h]: time of the last failure, -1 when there is no entry
  now,               \* time.time()
  nextSock,          \* sockets created so far; socket.socket() makes socket nextSock + 1
  sockHost,          \* sockHost[s]: the host socket s was connected to, NoHost before it exists
  pc,                \* pc[c]: position of caller c in send_request
  host,              \* host[c]: the host select_host returned to caller c
  conn,              \* conn[c]: the socket caller c holds, 0 when it holds none
  outcome,           \* outcome[c]: how caller c's last send_request ended
  lastIO,            \* the last socket operation and whether it succeeded
  discarded,         \* the sockets whose request ended in an I/O error
  \* recv_response and recv_exactly (datalib.py 178-197)
  sent,              \* every byte the peer sends on the connection before it closes
  stream,            \* the bytes of sent not yet received
  rpc,               \* position in recv_response: "prefix", "body", "done", "failed"
  num_bytes,         \* recv_exactly's num_bytes
  rbuf,              \* recv_exactly's buf
  chunks,            \* the chunks conn.recv returned to this recv_exactly call
  asked,             \* the sizes conn.recv was called with in this recv_exactly call
  len_prefix,        \* recv_response's len_prefix
  body,              \* recv_response's body, handed to pickle.loads
  \* fetchDataLocal (datalib.py 297-326)
  fpc,               \* "loop" while store.find is iterated, then "done" or "aborted"
  nodeIdx,           \* nodes store.find has handed to the loop so far
  lastNode,          \* the node of the last pass: its path, its disk fetch, its cache query
  queryLog,          \* how the cache query of each pass ended
  seriesList,        \* fetchDataLocal's seriesList
  \* fetchDataFromHyperTable (datalib.py 220-295)
  hpc,               \* "start", "scan", "resample", then "done" or "failed"
  HYPERTABLE_PREFIX, \* the key prefix addPrefix puts before a path, <<>> when none is set
  metricData,        \* what hypertable_index.findMetric returned: <<name, rate>> pairs
  window,            \* <<start, end>> of the request, in seconds
  metrics,           \* the list metrics
  metricRate,        \* the dict metricRate
  scanned,           \* the row keys of the scan request's cell intervals
  valuesMap,         \* the dict valuesMap
  resampled,         \* the keys the loop of lines 278-287 has done
  writes,            \* the indices line 286 has used, per key
  hError,            \* the exception that ended the fetch, "none" when there is none
  hSeries,           \* the list the fetch returned
  \* Store.__init__ (storage.py 33-40)
  cpc,               \* "call", "filtered", then "built" or "raised"
  directories,       \* the directories argument
  hosts,             \* the hosts argument: what is_local_interface finds each host to be
  self_remote_hosts, \* self.remote_hosts
  ctorError,         \* the exception __init__ raised, "none" when there is none
  \* find and _find (storage.py 149-232)
  fdpc,              \* "loop" while find iterates _find, then "done"
  rrdtool,           \* whether the rrdtool module was imported, lines 13-16
  fsDirs,            \* names of the directories of the root
  fsFiles,           \* names of the files of the root
  fsSubFiles,        \* names of the files in each directory of the root
  pattern_parts,     \* query.pattern.split('.')
  pathIdx,           \* paths of _find the loop has taken
  finderOut          \* the nodes find has yielded, in order

mergeVars == <<dbResults, cacheResults, merged, mpc>>
tsVars == <<tsValues, created, abandoned, consolidationFunc, valuesPerPoint, gen, pos, buf,
           out>>
storeVars == <<pattern, available, spc, dirIdx, matchIdx, requested, remote_requests,
               reqIdx, resIdx, found, event, yieldedNow, matchedDirs, answeredPeers,
               seenNominal, seenReal>>
poolVars == <<connections, last_failure, now, nextSock, sockHost, pc, host, conn, outcome,
              lastIO, discarded>>
recvVars == <<sent, stream, rpc, num_bytes, rbuf, chunks, asked, len_prefix, body>>
fetchVars == <<fpc, nodeIdx, lastNode, queryLog, seriesList>>
hyperVars == <<hpc, HYPERTABLE_PREFIX, metricData, window, metrics, metricRate, scanned,
               valuesMap, resampled, writes, hError, hSeries>>
ctorVars == <<cpc, directories, hosts, self_remote_hosts, ctorError>>
finderVars == <<fdpc, rrdtool, fsDirs, fsFiles, fsSubFiles, pattern_parts, pathIdx,
                finderOut>>

vars == <<mergeVars, tsVars, storeVars, poolVars, recvVars, fetchVars, hyperVars, ctorVars,
          finderVars>>

(***************************************************************************)
(* Bounds of the model.                                                    *)
(***************************************************************************)
MaxValues == 3        \* longest disk array drawn
MaxCache == 2         \* longest cache sample list drawn
MaxSamples == 4       \* longest TimeSeries drawn
MaxPerPoint == 3      \* largest values-per-point factor drawn
NumDirs == 2          \* local roots of the Store
NumPeers == 2         \* remote peers of the Store
MaxMatches == 2       \* most matches one root or one peer produces for a query
NumCallers == 2       \* concurrent callers of send_request
MaxSockets == 2       \* sockets created in one run
MaxNodes == 2         \* most nodes store.find hands to fetchDataLocal
MaxBody == 3          \* largest frame body the peer sends
MaxTime == 1          \* last tick of the clock
MaxMetrics == 2       \* most metrics the index returns
MaxCells == 2         \* most cells one scan returns
MaxEntries == 2       \* most directories, and most files, drawn for one directory

(***************************************************************************)
(* Helpers.                                                                *)
(***************************************************************************)
SeqsUpTo(S, n) == UNION {[1..k -> S] : k \in 0..n}

NonEmptySeqsUpTo(S, n) == UNION {[1..k -> S] : k \in 1..n}

Min(a, b) == IF a < b THEN a ELSE b

\* Python's s[a-1:b]: the elements a..b of s that exist.
Slice(s, a, b) == [i \in 1..(Min(b, Len(s)) - a + 1) |-> s[a + i - 1]]

(***************************************************************************)
(* mergeResults                                                            *)
(***************************************************************************)
\* The disk fetch returned nothing: `not dbResults` in Python.
Empty == <<>>

\* values[i] = value with a Python int index: i in 0..len-1 addresses slot i,
\* i in -len..-1 addresses slot len+i, anything else raises IndexError.
\* Slots are numbered from 0 as in the source; TLA+ sequences from 1.
IndexError(values, i) == i >= Len(values) \/ i < -Len(values)

ListSetItem(values, i, value) ==
  IF i >= 0
    THEN [values EXCEPT ![i + 1] = value]
    ELSE [values EXCEPT ![Len(values) + i + 1] = value]

\* One pass of the loop body, lines 340-347: the try/except swallows the
\* IndexError and leaves values alone.
OverlaySample(values, start, step, sample) ==
  LET timestamp == sample[1]
      value == sample[2]
      interval == timestamp - (timestamp % step)
      i == (interval - start) \div step
  IN IF IndexError(values, i) THEN values ELSE ListSetItem(values, i, value)

RECURSIVE OverlayLoop(_, _, _, _)
OverlayLoop(values, start, step, samples) ==
  IF samples = <<>>
    THEN values
    ELSE OverlayLoop(OverlaySample(values, start, step, Head(samples)),
                     start, step, Tail(samples))

\* A variant of lines 332-333 that returns the empty disk results.
mergeResultsDiskOrNothing(db, cache) ==
  IF db = Empty THEN db
  ELSE IF cache = <<>> THEN db
  ELSE <<db[1], OverlayLoop(db[2], db[1][1], db[1][3], cache)>>

\* mergeResults, lines 329-349.
mergeResults(db, cache) ==
  IF db = Empty THEN cache
  ELSE IF cache = <<>> THEN db
  ELSE LET timeInfo == db[1]
           values == db[2]
           start == timeInfo[1]
           step == timeInfo[3]
       IN <<timeInfo, OverlayLoop(values, start, step, cache)>>

\* Inputs drawn for mergeResults.
DiskValueSet == {1, 2}
CacheValueSet == {8, 9}
StartSet == {0, 20}
StepSet == {10}
TimestampSet == {5, 20, 25, 35, 40, 65}

SampleSet == TimestampSet \X CacheValueSet

DiskResult(start, step, values) == <<<<start, start + step * Len(values), step>>, values>>

\* The example of the specification: disk [1,2,3,4], start 0, step 10.
ExampleDisk == DiskResult(0, 10, <<1, 2, 3, 4>>)
ExampleCache == <<<<5, 99>>, <<25, 77>>>>

DiskResultSet ==
  {Empty} \cup
  {DiskResult(start, step, values) :
     start \in StartSet, step \in StepSet,
     values \in NonEmptySeqsUpTo(DiskValueSet, MaxValues)}

CacheResultSet == SeqsUpTo(SampleSet, MaxCache)

MergeIdle ==
  /\ dbResults = Empty
  /\ cacheResults = <<>>
  /\ merged = <<>>
  /\ mpc = "off"

MergeInit ==
  /\ \/ /\ dbResults \in DiskResultSet
        /\ cacheResults \in CacheResultSet
     \/ /\ dbResults = ExampleDisk
        /\ cacheResults = ExampleCache
  /\ merged = <<>>
  /\ mpc = "call"

MergeCall ==
  /\ mpc = "call"
  /\ merged' = mergeResults(dbResults, cacheResults)
  /\ mpc' = "returned"
  /\ UNCHANGED <<dbResults, cacheResults>>

(***************************************************************************)
(* TimeSeries                                                              *)
(***************************************************************************)
\* Python's None, and numbers. A number is kept as a fraction <<num, den>> in
\* lowest terms with den > 0, so that the int 4 and the float 4.0 are the same
\* value, as they are under Python's ==, and 3/2 is 1.5.
None == <<>>

RECURSIVE Gcd(_, _)
Gcd(a, b) == IF b = 0 THEN a ELSE Gcd(b, a % b)

Abs(n) == IF n < 0 THEN -n ELSE n

Frac(n, d) ==
  LET g == Gcd(Abs(n), d)
  IN <<n \div g, d \div g>>

Num(n) == <<n, 1>>

Add(x, y) == Frac(x[1] * y[2] + y[1] * x[2], x[2] * y[2])

\* sum(usable)
RECURSIVE SumOf(_)
SumOf(s) == IF s = <<>> THEN Num(0) ELSE Add(Head(s), SumOf(Tail(s)))

\* [v for v in values if v is not None]; also what
\* `while None in buf: buf.remove(None)` leaves of buf.
RECURSIVE RemoveNone(_)
RemoveNone(s) ==
  IF s = <<>> THEN <<>>
  ELSE IF Head(s) = None THEN RemoveNone(Tail(s))
  ELSE <<Head(s)>> \o RemoveNone(Tail(s))

\* A variant of __consolidate whose average divides by the group size.
ConsolidateByGroupSize(vals) ==
  LET usable == RemoveNone(vals)
      total == SumOf(usable)
  IN IF usable = <<>> THEN None
     ELSE IF consolidationFunc = "sum" THEN total
     ELSE Frac(total[1], total[2] * valuesPerPoint)

\* TimeSeries.__consolidate, lines 75-82 (consolidationFunc is "sum" or
\* "average": the raise of line 82 is not reached).
Consolidate(vals) ==
  LET usable == RemoveNone(vals)
      total == SumOf(usable)
  IN IF usable = <<>> THEN None
     ELSE IF consolidationFunc = "sum" THEN total
     ELSE Frac(total[1], total[2] * Len(usable))

RawSet == {None, Num(1), Num(2)}

\* The example of the specification: [1, 2, None, 4].
ExampleSeries == <<Num(1), Num(2), None, Num(4)>>

\* A variant in which buf is the series itself: stripping None from buf
\* strips it from the stored samples.
StoredAfterStripAliased(vals) == RemoveNone(vals)

\* buf is a list of its own (lines 59 and 66): `buf.remove(None)`, lines 64
\* and 69, leaves the stored samples alone.
StoredAfterStrip(vals) == vals

TSIdle ==
  /\ tsValues = <<>>
  /\ created = <<>>
  /\ abandoned = {}
  /\ consolidationFunc = "average"
  /\ valuesPerPoint = 1
  /\ gen = "off"
  /\ pos = 0
  /\ buf = <<>>
  /\ out = <<>>

\* TimeSeries.__init__, lines 37-45.
TSInit ==
  /\ tsValues \in SeqsUpTo(RawSet, MaxSamples) \cup {ExampleSeries}
  /\ created = tsValues
  /\ abandoned = {}
  /\ consolidationFunc \in {"sum", "average"}
  /\ valuesPerPoint = 1
  /\ gen = "idle"
  /\ pos = 0
  /\ buf = <<>>
  /\ out = <<>>

\* TimeSeries.consolidate, lines 54-55, called between traversals.
consolidate(k) ==
  /\ gen = "idle"
  /\ valuesPerPoint' = k
  /\ UNCHANGED <<tsValues, created, abandoned, consolidationFunc, gen, pos, buf, out>>

\* TimeSeries.__iter__, lines 47-51: a new traversal.
Iter ==
  /\ gen = "idle"
  /\ gen' = IF valuesPerPoint > 1 THEN "loop" ELSE "plain"
  /\ pos' = 0
  /\ buf' = <<>>
  /\ out' = <<>>
  /\ UNCHANGED <<tsValues, created, abandoned, consolidationFunc, valuesPerPoint>>

\* list.__iter__ hands out the next raw sample.
PlainNext ==
  /\ gen = "plain"
  /\ pos < Len(tsValues)
  /\ pos' = pos + 1
  /\ out' = Append(out, tsValues[pos + 1])
  /\ UNCHANGED <<tsValues, created, abandoned, consolidationFunc, valuesPerPoint, gen, buf>>

PlainStop ==
  /\ gen = "plain"
  /\ pos = Len(tsValues)
  /\ gen' = "done"
  /\ UNCHANGED <<tsValues, created, abandoned, consolidationFunc, valuesPerPoint, pos,
                 buf, out>>

\* One pass of the for loop of __consolidatingGenerator, lines 60-68.
GenLoop ==
  /\ gen = "loop"
  /\ pos < Len(tsValues)
  /\ pos' = pos + 1
  /\ LET appended == Append(buf, tsValues[pos + 1])
         stripped == RemoveNone(appended)
     IN IF Len(appended) = valuesPerPoint
          THEN IF stripped # <<>>
                 THEN /\ out' = Append(out, Consolidate(stripped))
                      /\ buf' = <<>>
                 ELSE /\ out' = Append(out, None)
                      /\ buf' = stripped
          ELSE /\ out' = out
               /\ buf' = appended
  /\ tsValues' = IF Len(buf) + 1 = valuesPerPoint
                   THEN StoredAfterStrip(tsValues)
                   ELSE tsValues
  /\ UNCHANGED <<created, abandoned, consolidationFunc, valuesPerPoint, gen>>

\* The for loop ends: list.__iter__ is exhausted.
GenLoopEnd ==
  /\ gen = "loop"
  /\ pos = Len(tsValues)
  /\ gen' = "tail"
  /\ UNCHANGED <<tsValues, created, abandoned, consolidationFunc, valuesPerPoint, pos,
                 buf, out>>

\* After the loop, lines 69-72.
GenTail ==
  /\ gen = "tail"
  /\ LET stripped == RemoveNone(buf)
     IN /\ buf' = stripped
        /\ out' = IF stripped # <<>>
                    THEN Append(out, Consolidate(stripped))
                    ELSE Append(out, None)
  /\ tsValues' = StoredAfterStrip(tsValues)
  /\ gen' = "done"
  /\ UNCHANGED <<created, abandoned, consolidationFunc, valuesPerPoint, pos>>

\* The caller drops the exhausted iterator.
IterDiscard ==
  /\ gen = "done"
  /\ gen' = "idle"
  /\ pos' = 0
  /\ buf' = <<>>
  /\ out' = <<>>
  /\ UNCHANGED <<tsValues, created, abandoned, consolidationFunc, valuesPerPoint>>

\* The caller drops an iterator it has not exhausted.
IterAbandon ==
  /\ gen \in {"plain", "loop", "tail"}
  /\ gen' = "idle"
  /\ abandoned' = abandoned \cup {valuesPerPoint}
  /\ pos' = 0
  /\ buf' = <<>>
  /\ out' = <<>>
  /\ UNCHANGED <<tsValues, created, consolidationFunc, valuesPerPoint>>

TSNext ==
  \/ \E k \in 1..MaxPerPoint : consolidate(k)
  \/ Iter
  \/ PlainNext
  \/ PlainStop
  \/ GenLoop
  \/ GenLoopEnd
  \/ GenTail
  \/ IterDiscard
  \/ IterAbandon

(***************************************************************************)
(* Store.find                                                              *)
(***************************************************************************)
Dirs == 1..NumDirs
Peers == 1..NumPeers

\* A pattern is the sequence of its characters.
ExactExample == <<"s", "e", "r", "v", "e", "r", "s", ".", "w", "e", "b", "0", "1", ".",
                  "c", "p", "u">>
WildcardExample == <<"s", "e", "r", "v", "e", "r", "s", ".", "w", "e", "b", "*", ".",
                     "c", "p", "u">>
PatternChars == {"a", "*", "?", "["}
PatternSet ==
  {ExactExample, WildcardExample} \cup {<<c>> : c \in PatternChars}
      \cup {<<"a", c>> : c \in PatternChars}

Contains(p, c) == \E i \in 1..Len(p) : p[i] = c

\* Query.isExact, line 103.
isExact(p) == ~Contains(p, "*") /\ ~Contains(p, "?") /\ ~Contains(p, "[")

\* Node, lines 236-241, and WhisperFile.__init__, lines 267-275: real_metric
\* is metric_path unless the file was reached through a symlink.
MetricPaths == {"m1", "m2"}
NodeSet == [metric_path : MetricPaths, real_metric : MetricPaths]
NoNode == [metric_path |-> "", real_metric |-> ""]
NoEvent == [kind |-> "none", src |-> 0, node |-> NoNode]

\* A variant of the comprehension without its "if r.available".
AllPeersFrom(r) == [i \in 1..(NumPeers - r + 1) |-> r + i - 1]

\* [r.find(query) for r in self.remote_stores if r.available], lines 74 and
\* 84, from peer r on.
RECURSIVE AvailableFrom(_)
AvailableFrom(r) ==
  IF r > NumPeers THEN <<>>
  ELSE IF available[r] THEN <<r>> \o AvailableFrom(r + 1)
  ELSE AvailableFrom(r + 1)

StoreIdle ==
  /\ pattern = <<>>
  /\ available = [r \in Peers |-> FALSE]
  /\ spc = "off"
  /\ dirIdx = 0
  /\ matchIdx = 0
  /\ requested = FALSE
  /\ remote_requests = <<>>
  /\ reqIdx = 0
  /\ resIdx = 0
  /\ found = {}
  /\ event = NoEvent
  /\ yieldedNow = NoNode
  /\ matchedDirs = {}
  /\ answeredPeers = {}
  /\ seenNominal = {}
  /\ seenReal = {}

\* A Store built over NumDirs roots and NumPeers peers, and a call of find.
StoreInit ==
  /\ pattern \in PatternSet
  /\ available \in [Peers -> BOOLEAN]
  /\ spc = "find"
  /\ dirIdx = 0
  /\ matchIdx = 0
  /\ requested = FALSE
  /\ remote_requests = <<>>
  /\ reqIdx = 0
  /\ resIdx = 0
  /\ found = {}
  /\ event = NoEvent
  /\ yieldedNow = NoNode
  /\ matchedDirs = {}
  /\ answeredPeers = {}
  /\ seenNominal = {}
  /\ seenReal = {}

\* The generator yields node n.
Yield(n) ==
  /\ yieldedNow' = n
  /\ seenNominal' = seenNominal \cup {n.metric_path}
  /\ seenReal' = seenReal \cup {n.real_metric}

\* The step yields nothing.
NoYield ==
  /\ yieldedNow' = NoNode
  /\ UNCHANGED <<seenNominal, seenReal>>

\* A variant of find without the exact-match short cut.
FindAlwaysAll ==
  /\ spc = "find"
  /\ spc' = "all_start"
  /\ dirIdx' = 1
  /\ UNCHANGED <<pattern, available, matchIdx, requested, remote_requests, reqIdx,
                 resIdx, found, matchedDirs, answeredPeers>>
  /\ event' = NoEvent
  /\ NoYield

\* Store.find, lines 52-64: the query is built and the branch taken.
Find ==
  /\ spc = "find"
  /\ spc' = IF isExact(pattern) THEN "first_local" ELSE "all_start"
  /\ dirIdx' = 1
  /\ UNCHANGED <<pattern, available, matchIdx, requested, remote_requests, reqIdx,
                 resIdx, found, matchedDirs, answeredPeers>>
  /\ event' = NoEvent
  /\ NoYield

\* find_all, lines 83-84: the seen-set and the remote requests.
AllStartRemote ==
  /\ spc = "all_start"
  /\ found' = {}
  /\ remote_requests' = AvailableFrom(1)
  /\ requested' = TRUE
  /\ spc' = "all_local"
  /\ UNCHANGED <<pattern, available, dirIdx, matchIdx, reqIdx, resIdx, matchedDirs,
                 answeredPeers>>
  /\ event' = NoEvent
  /\ NoYield

\* A variant of the local loop body that skips a path already found.
AllLocalMatchDeduplicated(n) ==
  /\ spc = "all_local"
  /\ dirIdx <= NumDirs
  /\ matchIdx < MaxMatches
  /\ matchIdx' = matchIdx + 1
  /\ matchedDirs' = matchedDirs \cup {dirIdx}
  /\ IF n.metric_path \notin found
       THEN /\ Yield(n)
            /\ found' = found \cup {n.metric_path}
            /\ event' = [kind |-> "local", src |-> dirIdx, node |-> n]
       ELSE /\ NoYield
            /\ found' = found
            /\ event' = [kind |-> "local", src |-> dirIdx, node |-> n]
  /\ UNCHANGED <<pattern, available, spc, dirIdx, requested, remote_requests, reqIdx,
                 resIdx, answeredPeers>>

\* find_all, lines 88-90: the finder of root dirIdx produces n.
AllLocalMatch(n) ==
  /\ spc = "all_local"
  /\ dirIdx <= NumDirs
  /\ matchIdx < MaxMatches
  /\ matchIdx' = matchIdx + 1
  /\ matchedDirs' = matchedDirs \cup {dirIdx}
  /\ Yield(n)
  /\ found' = found \cup {n.metric_path}
  /\ event' = [kind |-> "local", src |-> dirIdx, node |-> n]
  /\ UNCHANGED <<pattern, available, spc, dirIdx, requested, remote_requests, reqIdx,
                 resIdx, answeredPeers>>

\* find_all, line 87: the finder of root dirIdx is exhausted.
AllLocalExhausted ==
  /\ spc = "all_local"
  /\ dirIdx <= NumDirs
  /\ dirIdx' = dirIdx + 1
  /\ matchIdx' = 0
  /\ UNCHANGED <<pattern, available, spc, requested, remote_requests, reqIdx, resIdx,
                 found, matchedDirs, answeredPeers>>
  /\ event' = NoEvent
  /\ NoYield

\* find_all, line 93: the local roots are done, the requests are read in order.
AllLocalDone ==
  /\ spc = "all_local"
  /\ dirIdx > NumDirs
  /\ spc' = "all_remote"
  /\ reqIdx' = 1
  /\ resIdx' = 0
  /\ UNCHANGED <<pattern, available, dirIdx, matchIdx, requested, remote_requests,
                 found, matchedDirs, answeredPeers>>
  /\ event' = NoEvent
  /\ NoYield

\* A variant of the remote loop body that tests the canonical path.
AllRemoteResultByRealMetric(n) ==
  /\ spc = "all_remote"
  /\ reqIdx <= Len(remote_requests)
  /\ resIdx < MaxMatches
  /\ resIdx' = resIdx + 1
  /\ answeredPeers' = answeredPeers \cup {remote_requests[reqIdx]}
  /\ IF n.real_metric \notin found
       THEN /\ Yield(n)
            /\ found' = found \cup {n.real_metric}
            /\ event' = [kind |-> "remote", src |-> remote_requests[reqIdx], node |-> n]
       ELSE /\ NoYield
            /\ found' = found
            /\ event' = [kind |-> "remote", src |-> remote_requests[reqIdx], node |-> n]
  /\ UNCHANGED <<pattern, available, spc, dirIdx, matchIdx, requested, remote_requests,
                 reqIdx, matchedDirs>>

\* find_all, lines 94-98: request reqIdx returns n.
AllRemoteResult(n) ==
  /\ spc = "all_remote"
  /\ reqIdx <= Len(remote_requests)
  /\ resIdx < MaxMatches
  /\ resIdx' = resIdx + 1
  /\ answeredPeers' = answeredPeers \cup {remote_requests[reqIdx]}
  /\ IF n.metric_path \notin found
       THEN /\ Yield(n)
            /\ found' = found \cup {n.metric_path}
            /\ event' = [kind |-> "remote", src |-> remote_requests[reqIdx], node |-> n]
       ELSE /\ NoYield
            /\ found' = found
            /\ event' = [kind |-> "remote", src |-> remote_requests[reqIdx], node |-> n]
  /\ UNCHANGED <<pattern, available, spc, dirIdx, matchIdx, requested, remote_requests,
                 reqIdx, matchedDirs>>

\* find_all, line 93: request reqIdx has no more results.
AllRemoteExhausted ==
  /\ spc = "all_remote"
  /\ reqIdx <= Len(remote_requests)
  /\ reqIdx' = reqIdx + 1
  /\ resIdx' = 0
  /\ UNCHANGED <<pattern, available, spc, dirIdx, matchIdx, requested, remote_requests,
                 found, matchedDirs, answeredPeers>>
  /\ event' = NoEvent
  /\ NoYield

\* find_all falls off its end.
AllDone ==
  /\ spc = "all_remote"
  /\ reqIdx > Len(remote_requests)
  /\ spc' = "done"
  /\ UNCHANGED <<pattern, available, dirIdx, matchIdx, requested, remote_requests,
                 reqIdx, resIdx, found, matchedDirs, answeredPeers>>
  /\ event' = NoEvent
  /\ NoYield

\* find_first, lines 69-71, and find, lines 59-60: the finder of root dirIdx
\* produces n, find_first returns it and find yields it.
FirstLocalMatch(n) ==
  /\ spc = "first_local"
  /\ dirIdx <= NumDirs
  /\ matchIdx' = 1
  /\ matchedDirs' = matchedDirs \cup {dirIdx}
  /\ Yield(n)
  /\ event' = [kind |-> "local", src |-> dirIdx, node |-> n]
  /\ spc' = "done"
  /\ UNCHANGED <<pattern, available, dirIdx, requested, remote_requests, reqIdx,
                 resIdx, found, answeredPeers>>

\* find_first, line 69: the finder of root dirIdx produces nothing.
FirstLocalNone ==
  /\ spc = "first_local"
  /\ dirIdx <= NumDirs
  /\ dirIdx' = dirIdx + 1
  /\ UNCHANGED <<pattern, available, spc, matchIdx, requested, remote_requests, reqIdx,
                 resIdx, found, matchedDirs, answeredPeers>>
  /\ event' = NoEvent
  /\ NoYield

\* find_first, line 74: no root matched, the requests are issued.
FirstStartRemote ==
  /\ spc = "first_local"
  /\ dirIdx > NumDirs
  /\ remote_requests' = AvailableFrom(1)
  /\ requested' = TRUE
  /\ spc' = "first_remote"
  /\ reqIdx' = 1
  /\ UNCHANGED <<pattern, available, dirIdx, matchIdx, resIdx, found, matchedDirs,
                 answeredPeers>>
  /\ event' = NoEvent
  /\ NoYield

\* find_first, lines 76-78: request reqIdx returns n, find yields it.
FirstRemoteResult(n) ==
  /\ spc = "first_remote"
  /\ reqIdx <= Len(remote_requests)
  /\ resIdx' = 1
  /\ answeredPeers' = answeredPeers \cup {remote_requests[reqIdx]}
  /\ Yield(n)
  /\ event' = [kind |-> "remote", src |-> remote_requests[reqIdx], node |-> n]
  /\ spc' = "done"
  /\ UNCHANGED <<pattern, available, dirIdx, matchIdx, requested, remote_requests,
                 reqIdx, found, matchedDirs>>

\* find_first, line 76: request reqIdx returns nothing.
FirstRemoteNone ==
  /\ spc = "first_remote"
  /\ reqIdx <= Len(remote_requests)
  /\ reqIdx' = reqIdx + 1
  /\ UNCHANGED <<pattern, available, spc, dirIdx, matchIdx, requested, remote_requests,
                 resIdx, found, matchedDirs, answeredPeers>>
  /\ event' = NoEvent
  /\ NoYield

\* find_first falls off its end and returns None; find yields nothing.
FirstNone ==
  /\ spc = "first_remote"
  /\ reqIdx > Len(remote_requests)
  /\ spc' = "done"
  /\ UNCHANGED <<pattern, available, dirIdx, matchIdx, requested, remote_requests,
                 reqIdx, resIdx, found, matchedDirs, answeredPeers>>
  /\ event' = NoEvent
  /\ NoYield

StoreNext ==
  \/ Find
  \/ AllStartRemote
  \/ \E n \in NodeSet : AllLocalMatch(n)
  \/ AllLocalExhausted
  \/ AllLocalDone
  \/ \E n \in NodeSet : AllRemoteResult(n)
  \/ AllRemoteExhausted
  \/ AllDone
  \/ \E n \in NodeSet : FirstLocalMatch(n)
  \/ FirstLocalNone
  \/ FirstStartRemote
  \/ \E n \in NodeSet : FirstRemoteResult(n)
  \/ FirstRemoteNone
  \/ FirstNone

(***************************************************************************)
(* CarbonLinkPool                                                          *)
(***************************************************************************)
\* self.hosts, line 103: (server, instance) pairs; two instances of one server.
Hosts == {<<"cache1", "a">>, <<"cache1", "b">>}
NoHost == <<"", "">>
Callers == 1..NumCallers
Sockets == 1..MaxSockets
Metrics == {"m1", "m2", "m3"}

\* ConsistentHashRing.get_node (graphite/render/hashing.py): every host owns
\* points of the ring, the key is hashed to a position and the owner of the
\* first point at or after it, wrapping around, is returned.
RingPoints == {<<3, <<"cache1", "a">>>>, <<6, <<"cache1", "b">>>>}
KeyPosition(metric) ==
  CASE metric = "m1" -> 1
    [] metric = "m2" -> 4
    [] OTHER -> 7

get_node(metric) ==
  LET atOrAfter == {pt \in RingPoints : pt[1] >= KeyPosition(metric)}
      candidates == IF atOrAfter = {} THEN RingPoints ELSE atOrAfter
      first == CHOOSE pt \in candidates : \A q \in candidates : pt[1] <= q[1]
  IN first[2]

\* CarbonLinkPool.select_host, lines 113-115.
select_host(metric) == get_node(metric)

NoIO == [caller |-> 0, op |-> "none", ok |-> TRUE, reply |-> "none"]

PoolIdle ==
  /\ connections = [h \in Hosts |-> {}]
  /\ last_failure = [h \in Hosts |-> -1]
  /\ now = 0
  /\ nextSock = 0
  /\ sockHost = [s \in Sockets |-> NoHost]
  /\ pc = [c \in Callers |-> "off"]
  /\ host = [c \in Callers |-> NoHost]
  /\ conn = [c \in Callers |-> 0]
  /\ outcome = [c \in Callers |-> "none"]
  /\ lastIO = NoIO
  /\ discarded = {}

\* CarbonLinkPool.__init__, lines 102-111: an empty pool per host, no failure
\* recorded.
PoolInit ==
  /\ connections = [h \in Hosts |-> {}]
  /\ last_failure = [h \in Hosts |-> -1]
  /\ now = 0
  /\ nextSock = 0
  /\ sockHost = [s \in Sockets |-> NoHost]
  /\ pc = [c \in Callers |-> "idle"]
  /\ host = [c \in Callers |-> NoHost]
  /\ conn = [c \in Callers |-> 0]
  /\ outcome = [c \in Callers |-> "none"]
  /\ lastIO = NoIO
  /\ discarded = {}

\* The clock advances.
Tick ==
  /\ now < MaxTime
  /\ now' = now + 1
  /\ lastIO' = NoIO
  /\ UNCHANGED <<connections, last_failure, nextSock, sockHost, pc, host, conn, outcome,
                 discarded>>

\* A variant of the except clauses that forgets the failure time.
RecordFailureNever(h) == last_failure

\* self.last_failure[host] = time.time(), lines 133 and 169.
RecordFailure(h) == [last_failure EXCEPT ![h] = now]

\* A variant of the failure path that hands the socket back to the pool.
AfterFailureRecycle(h, s) == [connections EXCEPT ![h] = @ \cup {s}]

\* The except clause of lines 168-170 leaves the pools alone: the socket the
\* caller holds is dropped with the frame of send_request.
AfterFailure(h, s) == connections

\* self.connections[host].add(conn), line 172.
AfterSuccess(h, s) == [connections EXCEPT ![h] = @ \cup {s}]

\* A variant of lines 173-176 that returns every payload.
ReplyOutcomeAlwaysReturned(reply) == "returned"

\* Lines 173-176: a payload with an 'error' field raises
\* CarbonLinkRequestError, any other payload is returned.
ReplyOutcome(reply) == IF reply = "error" THEN "request_error" ELSE "returned"

\* A variant of get_connection that reads a pooled socket and leaves it there.
PoolPeek(h, s) == connections

\* connectionPool.pop(), line 123, when it hands out socket s.
PoolPop(h, s) == [connections EXCEPT ![h] = @ \ {s}]

\* send_request, lines 158-164, and get_connection, lines 119-123: the host is
\* selected and a pooled socket popped.
GetPooled(c, metric) ==
  /\ pc[c] = "idle"
  /\ LET h == select_host(metric)
     IN /\ connections[h] # {}
        /\ \E s \in connections[h] :
             /\ connections' = PoolPop(h, s)
             /\ conn' = [conn EXCEPT ![c] = s]
        /\ host' = [host EXCEPT ![c] = h]
  /\ pc' = [pc EXCEPT ![c] = "send"]
  /\ outcome' = [outcome EXCEPT ![c] = "none"]
  /\ lastIO' = NoIO
  /\ UNCHANGED <<last_failure, now, nextSock, sockHost, discarded>>

\* get_connection, lines 124-129: the pool is empty, a socket is created.
GetNew(c, metric) ==
  /\ pc[c] = "idle"
  /\ nextSock < MaxSockets
  /\ LET h == select_host(metric)
     IN /\ connections[h] = {}
        /\ host' = [host EXCEPT ![c] = h]
        /\ sockHost' = [sockHost EXCEPT ![nextSock + 1] = h]
  /\ conn' = [conn EXCEPT ![c] = nextSock + 1]
  /\ nextSock' = nextSock + 1
  /\ pc' = [pc EXCEPT ![c] = "connect"]
  /\ outcome' = [outcome EXCEPT ![c] = "none"]
  /\ lastIO' = NoIO
  /\ UNCHANGED <<connections, last_failure, now, discarded>>

\* get_connection, lines 130-137: connection.connect succeeds or raises.
Connect(c, ok) ==
  /\ pc[c] = "connect"
  /\ lastIO' = [caller |-> c, op |-> "connect", ok |-> ok, reply |-> "none"]
  /\ IF ok
       THEN /\ pc' = [pc EXCEPT ![c] = "send"]
            /\ UNCHANGED <<last_failure, outcome, discarded>>
       ELSE /\ last_failure' = RecordFailure(host[c])
            /\ outcome' = [outcome EXCEPT ![c] = "transport_error"]
            /\ discarded' = discarded \cup {conn[c]}
            /\ pc' = [pc EXCEPT ![c] = "done"]
  /\ UNCHANGED <<connections, now, nextSock, sockHost, host, conn>>

\* send_request, line 166: conn.sendall succeeds or raises (lines 168-170).
Send(c, ok) ==
  /\ pc[c] = "send"
  /\ lastIO' = [caller |-> c, op |-> "send", ok |-> ok, reply |-> "none"]
  /\ IF ok
       THEN /\ pc' = [pc EXCEPT ![c] = "recv"]
            /\ UNCHANGED <<connections, last_failure, outcome, discarded>>
       ELSE /\ last_failure' = RecordFailure(host[c])
            /\ connections' = AfterFailure(host[c], conn[c])
            /\ outcome' = [outcome EXCEPT ![c] = "transport_error"]
            /\ discarded' = discarded \cup {conn[c]}
            /\ pc' = [pc EXCEPT ![c] = "done"]
  /\ UNCHANGED <<now, nextSock, sockHost, host, conn>>

\* send_request, lines 167-176: recv_response raises (reply = "fail"), or
\* returns a payload with an 'error' field (reply = "error") or without one
\* (reply = "result").
Recv(c, reply) ==
  /\ pc[c] = "recv"
  /\ lastIO' = [caller |-> c, op |-> "recv", ok |-> (reply # "fail"), reply |-> reply]
  /\ IF reply = "fail"
       THEN /\ last_failure' = RecordFailure(host[c])
            /\ connections' = AfterFailure(host[c], conn[c])
            /\ outcome' = [outcome EXCEPT ![c] = "transport_error"]
            /\ discarded' = discarded \cup {conn[c]}
       ELSE /\ connections' = AfterSuccess(host[c], conn[c])
            /\ outcome' = [outcome EXCEPT ![c] = ReplyOutcome(reply)]
            /\ UNCHANGED <<last_failure, discarded>>
  /\ pc' = [pc EXCEPT ![c] = "done"]
  /\ UNCHANGED <<now, nextSock, sockHost, host, conn>>

\* The caller has its answer or its exception; its locals are gone.
Leave(c) ==
  /\ pc[c] = "done"
  /\ pc' = [pc EXCEPT ![c] = "idle"]
  /\ host' = [host EXCEPT ![c] = NoHost]
  /\ conn' = [conn EXCEPT ![c] = 0]
  /\ outcome' = [outcome EXCEPT ![c] = "none"]
  /\ lastIO' = NoIO
  /\ UNCHANGED <<connections, last_failure, now, nextSock, sockHost, discarded>>

PoolNext ==
  \/ Tick
  \/ \E c \in Callers, metric \in Metrics : GetPooled(c, metric)
  \/ \E c \in Callers, metric \in Metrics : GetNew(c, metric)
  \/ \E c \in Callers, ok \in BOOLEAN : Connect(c, ok)
  \/ \E c \in Callers, ok \in BOOLEAN : Send(c, ok)
  \/ \E c \in Callers, reply \in {"fail", "error", "result"} : Recv(c, reply)
  \/ \E c \in Callers : Leave(c)

(***************************************************************************)
(* recv_response and recv_exactly                                          *)
(***************************************************************************)
BodyBytes == {7, 9}

\* struct.pack("!L", n) for n < 256, and struct.unpack("!L", prefix)[0].
Pack(n) == <<0, 0, 0, n>>
Unpack(prefix) ==
  ((prefix[1] * 256 + prefix[2]) * 256 + prefix[3]) * 256 + prefix[4]

\* What a peer sends before it closes the connection: a frame, the first
\* byte of a following frame, or any prefix of these.
FrameSet == {Pack(Len(b)) \o b : b \in SeqsUpTo(BodyBytes, MaxBody)}
SentSet ==
  {Slice(f \o extra, 1, k) :
     f \in FrameSet, extra \in {<<>>, <<0>>}, k \in 0..(4 + MaxBody + 1)}

RecvIdle ==
  /\ sent = <<>>
  /\ stream = <<>>
  /\ rpc = "off"
  /\ num_bytes = 0
  /\ rbuf = <<>>
  /\ chunks = <<>>
  /\ asked = <<>>
  /\ len_prefix = <<>>
  /\ body = <<>>

\* recv_response is entered: recv_exactly(conn, 4), lines 179 and 190.
RecvInit ==
  /\ sent \in SentSet
  /\ stream = sent
  /\ rpc = "prefix"
  /\ num_bytes = 4
  /\ rbuf = <<>>
  /\ chunks = <<>>
  /\ asked = <<>>
  /\ len_prefix = <<>>
  /\ body = <<>>

\* A variant of the loop test that is satisfied by the first chunk.
LoopDoneAfterOneChunk(b, n) == Len(b) > 0 \/ n = 0

\* The negation of the loop test of line 191.
LoopDone(b, n) == ~(Len(b) < n)

\* Lines 191-195: conn.recv(num_bytes - len(buf)) returns k bytes, k >= 1.
RecvChunk(k) ==
  /\ rpc \in {"prefix", "body"}
  /\ ~LoopDone(rbuf, num_bytes)
  /\ k >= 1
  /\ k <= num_bytes - Len(rbuf)
  /\ k <= Len(stream)
  /\ rbuf' = rbuf \o Slice(stream, 1, k)
  /\ chunks' = Append(chunks, Slice(stream, 1, k))
  /\ asked' = Append(asked, num_bytes - Len(rbuf))
  /\ stream' = Slice(stream, k + 1, Len(stream))
  /\ UNCHANGED <<sent, rpc, num_bytes, len_prefix, body>>

\* Lines 192-194: the peer has closed, conn.recv returns '' and recv_exactly
\* raises.
RecvZero ==
  /\ rpc \in {"prefix", "body"}
  /\ ~LoopDone(rbuf, num_bytes)
  /\ stream = <<>>
  /\ chunks' = Append(chunks, <<>>)
  /\ asked' = Append(asked, num_bytes - Len(rbuf))
  /\ rpc' = "failed"
  /\ UNCHANGED <<sent, stream, num_bytes, rbuf, len_prefix, body>>

\* Lines 197 and 179-181: recv_exactly returns the prefix, the length is
\* unpacked and recv_exactly(conn, body_size) entered.
\* struct.unpack raises struct.error unless it is given exactly 4 bytes.
PrefixReturn ==
  /\ rpc = "prefix"
  /\ LoopDone(rbuf, num_bytes)
  /\ len_prefix' = rbuf
  /\ IF Len(rbuf) = 4
       THEN /\ num_bytes' = Unpack(rbuf)
            /\ rbuf' = <<>>
            /\ chunks' = <<>>
            /\ asked' = <<>>
            /\ rpc' = "body"
       ELSE /\ rpc' = "failed"
            /\ UNCHANGED <<num_bytes, rbuf, chunks, asked>>
  /\ UNCHANGED <<sent, stream, body>>

\* Lines 197 and 181-182: recv_exactly returns the body, which is unpickled.
BodyReturn ==
  /\ rpc = "body"
  /\ LoopDone(rbuf, num_bytes)
  /\ body' = rbuf
  /\ rpc' = "done"
  /\ UNCHANGED <<sent, stream, num_bytes, rbuf, chunks, asked, len_prefix>>

RecvNext ==
  \/ \E k \in 1..(4 + MaxBody) : RecvChunk(k)
  \/ RecvZero
  \/ PrefixReturn
  \/ BodyReturn

(***************************************************************************)
(* fetchDataLocal                                                          *)
(***************************************************************************)
\* What dbFile.fetch returns: nothing for a Branch (storage.py 247-249), or
\* (timeInfo, values).
FetchDiskSet ==
  {Empty, DiskResult(0, 10, <<1, 2>>), DiskResult(20, 10, <<1, 2, 1>>)}

\* How CarbonLink.query ends: it raises (a transport failure or a
\* CarbonLinkRequestError) or returns the datapoints.
FetchCacheSet == {<<>>, <<<<35, 8>>>>, <<<<5, 9>>, <<25, 8>>>>}
QuerySet ==
  {[kind |-> k, datapoints |-> <<>>] : k \in {"transport", "request"}}
    \cup {[kind |-> "ok", datapoints |-> c] : c \in FetchCacheSet}

NoPass == [metric_path |-> "", db |-> Empty, query |-> "none"]

\* TimeSeries(dbFile.metric_path, start, end, step, values), line 322.
TimeSeries(name, start, end, step, vals) ==
  [name |-> name, start |-> start, end |-> end, step |-> step, values |-> vals]

\* A variant of the except clause that gives the node up.
OnQueryFailureSkip(db) == Empty

\* The except clause, lines 313-315: results = dbResults.
OnQueryFailure(db) == db

\* Lines 309-315: results of one pass.
PassResults(db, q) ==
  IF q.kind = "ok" THEN mergeResults(db, q.datapoints) ELSE OnQueryFailure(db)

\* Lines 320-321: (timeInfo, values) = results and (start, end, step) =
\* timeInfo raise ValueError unless results has 2 items and the first has 3.
Unpackable(results) == Len(results) = 2 /\ Len(results[1]) = 3

FetchIdle ==
  /\ fpc = "off"
  /\ nodeIdx = 0
  /\ lastNode = NoPass
  /\ queryLog = <<>>
  /\ seriesList = <<>>

\* Lines 298-307.
FetchInit ==
  /\ fpc = "loop"
  /\ nodeIdx = 0
  /\ lastNode = NoPass
  /\ queryLog = <<>>
  /\ seriesList = <<>>

\* One pass of the loop, lines 307-324, for a node with path name whose disk
\* fetch returns db and whose cache query ends as q.
FetchPass(name, db, q) ==
  /\ fpc = "loop"
  /\ nodeIdx < MaxNodes
  /\ nodeIdx' = nodeIdx + 1
  /\ lastNode' = [metric_path |-> name, db |-> db, query |-> q.kind]
  /\ queryLog' = Append(queryLog, q.kind)
  /\ LET results == PassResults(db, q)
     IN IF results = Empty
          THEN /\ seriesList' = seriesList
               /\ fpc' = fpc
          ELSE IF Unpackable(results)
            THEN /\ seriesList' =
                      Append(seriesList,
                             TimeSeries(name, results[1][1], results[1][2],
                                        results[1][3], results[2]))
                 /\ fpc' = fpc
            ELSE /\ seriesList' = seriesList
                 /\ fpc' = "aborted"

\* store.find is exhausted: return seriesList, line 326.
FetchReturn ==
  /\ fpc = "loop"
  /\ fpc' = "done"
  /\ UNCHANGED <<nodeIdx, lastNode, queryLog, seriesList>>

FetchNext ==
  \/ \E name \in MetricPaths, db \in FetchDiskSet, q \in QuerySet : FetchPass(name, db, q)
  \/ FetchReturn

(***************************************************************************)
(* fetchDataFromHyperTable                                                 *)
(***************************************************************************)
\* Metric names and row keys are sequences of path segments.
NameOrder == <<"a", "b", "c">>
NameSet == {<<NameOrder[i]>> : i \in 1..Len(NameOrder)}

\* The configured key prefix: none, or one segment put before every path.
PrefixSet == {<<>>, <<"ht">>}

\* addPrefix and removePrefix of graphite.hypertable_client.
addPrefix(path) == IF HYPERTABLE_PREFIX = <<>> THEN path ELSE HYPERTABLE_PREFIX \o path

removePrefix(path) ==
  IF /\ HYPERTABLE_PREFIX # <<>>
     /\ Len(path) >= Len(HYPERTABLE_PREFIX)
     /\ Slice(path, 1, Len(HYPERTABLE_PREFIX)) = HYPERTABLE_PREFIX
    THEN Slice(path, Len(HYPERTABLE_PREFIX) + 1, Len(path))
    ELSE path

\* A rate for which "not m[1]" holds, line 232.
NoRate == 0
RateSet == {NoRate, 60}

\* What hypertable_index.findMetric returns: (name, rate) pairs.
MetricDataSet ==
  {d \in SeqsUpTo(NameSet \X RateSet, MaxMetrics) :
     \A i, j \in 1..Len(d) : i # j => d[i][1] # d[j][1]}

\* (start, end) of the request, in seconds, line 244.
WindowSet == {<<0, 180>>, <<0, 30>>, <<60, 180>>}

\* The seconds (line 269) of the cells a scan of [start, end) can return.
CellTimes(w) == {t \in {10, 90, 179} : w[1] <= t /\ t < w[2]}
CellValues == {1, 2}

InList(list, x) == \E i \in 1..Len(list) : list[i] = x

\* list.remove(x): drops the first item equal to x; the caller has checked
\* InList, without which Python raises ValueError.
ListRemove(list, x) ==
  LET i == CHOOSE k \in 1..Len(list) : list[k] = x /\ \A j \in 1..(k - 1) : list[j] # x
  IN [k \in 1..(Len(list) - 1) |-> IF k < i THEN list[k] ELSE list[k + 1]]

EmptyDict == [k \in {} |-> 0]
DictPut(d, key, v) == [k \in DOMAIN d \cup {key} |-> IF k = key THEN v ELSE d[k]]

\* Lines 229-236: metrics holds the prefixed names; the loop removes m[0]
\* from it for a metric without a rate and records the rate of the others
\* under m[0].
RECURSIVE FilterLoop(_, _, _)
FilterLoop(data, ms, rates) ==
  IF data = <<>>
    THEN [error |-> "none", metrics |-> ms, metricRate |-> rates]
    ELSE LET m == Head(data)
         IN IF m[2] = NoRate
              THEN IF InList(ms, m[1])
                     THEN FilterLoop(Tail(data), ListRemove(ms, m[1]), rates)
                     ELSE [error |-> "ValueError", metrics |-> ms, metricRate |-> rates]
              ELSE FilterLoop(Tail(data), ms, DictPut(rates, m[1], m[2]))

\* round(float(d) / float(r)) for r > 0: Python 2 rounds halves away from zero.
Round(d, r) ==
  IF d >= 0 THEN (2 * d + r) \div (2 * r) ELSE -((2 * (-d) + r) \div (2 * r))

\* Lines 284-286 for the samples of one key: finalValues[bucket] = float(x[1])
\* with Python's list indexing.  writes collects every index line 286 used.
RECURSIVE PushLoop(_, _, _, _, _, _)
PushLoop(finalValues, samples, start, rate, steps, written) ==
  IF samples = <<>>
    THEN [error |-> "none", values |-> finalValues, writes |-> written]
    ELSE LET x == Head(samples)
             bucket == Min(Round(x[1] - start, rate), steps - 1)
             w == [its |-> x[1], bucket |-> bucket, steps |-> steps, rate |-> rate]
         IN IF IndexError(finalValues, bucket)
              THEN [error |-> "IndexError", values |-> finalValues,
                    writes |-> written \cup {w}]
              ELSE PushLoop(ListSetItem(finalValues, bucket, Num(x[2])), Tail(samples),
                            start, rate, steps, written \cup {w})

\* Lines 280-287 for key m.
Resample(m) ==
  IF m \notin DOMAIN metricRate
    THEN [error |-> "KeyError", values |-> <<>>, writes |-> {}]
    ELSE LET steps == (window[2] - window[1]) \div metricRate[m]
         IN PushLoop([i \in 1..steps |-> None], valuesMap[m], window[1],
                     metricRate[m], steps, {})

\* sorted(valuesMap.keys()), line 290: keys differ in their last segment.
Rank(key) == CHOOSE i \in 1..Len(NameOrder) : NameOrder[i] = key[Len(key)]

SortedKeys(K) ==
  CHOOSE s \in [1..Cardinality(K) -> K] :
    \A i, j \in 1..Cardinality(K) : i < j => Rank(s[i]) < Rank(s[j])

HyperIdle ==
  /\ hpc = "off"
  /\ HYPERTABLE_PREFIX = <<>>
  /\ metricData = <<>>
  /\ window = <<0, 0>>
  /\ metrics = <<>>
  /\ metricRate = EmptyDict
  /\ scanned = {}
  /\ valuesMap = EmptyDict
  /\ resampled = {}
  /\ writes = {}
  /\ hError = "none"
  /\ hSeries = <<>>

\* The call: the index has answered, lines 227-228 and 241-244.
HyperInit ==
  /\ hpc = "start"
  /\ HYPERTABLE_PREFIX \in PrefixSet
  /\ metricData \in MetricDataSet
  /\ window \in WindowSet
  /\ metrics = <<>>
  /\ metricRate = EmptyDict
  /\ scanned = {}
  /\ valuesMap = EmptyDict
  /\ resampled = {}
  /\ writes = {}
  /\ hError = "none"
  /\ hSeries = <<>>

\* Lines 229-264: filter the metrics, return [] when none is left, else
\* build the scan request from metrics.
HyperStart ==
  /\ hpc = "start"
  /\ LET r == FilterLoop(metricData,
                         [i \in 1..Len(metricData) |-> addPrefix(metricData[i][1])],
                         EmptyDict)
     IN /\ metrics' = r.metrics
        /\ metricRate' = r.metricRate
        /\ hError' = r.error
        /\ IF r.error # "none"
             THEN hpc' = "failed" /\ scanned' = scanned
             ELSE IF r.metrics = <<>>
               THEN hpc' = "done" /\ scanned' = scanned
               ELSE /\ hpc' = "scan"
                    /\ scanned' = {r.metrics[i] : i \in 1..Len(r.metrics)}
  /\ UNCHANGED <<HYPERTABLE_PREFIX, metricData, window, valuesMap, resampled, writes,
                 hSeries>>

NumCells == IF DOMAIN valuesMap = {} THEN 0
            ELSE LET f[K \in SUBSET DOMAIN valuesMap] ==
                       IF K = {} THEN 0
                       ELSE LET k == CHOOSE x \in K : TRUE
                            IN Len(valuesMap[k]) + f[K \ {k}]
                 IN f[DOMAIN valuesMap]

\* processResult, lines 268-270, for one cell of the scan.
HyperCell(key, its, val) ==
  /\ hpc = "scan"
  /\ NumCells < MaxCells
  /\ key \in scanned
  /\ valuesMap' = IF key \in DOMAIN valuesMap
                    THEN [valuesMap EXCEPT ![key] = Append(@, <<its, val>>)]
                    ELSE DictPut(valuesMap, key, <<<<its, val>>>>)
  /\ UNCHANGED <<hpc, HYPERTABLE_PREFIX, metricData, window, metrics, metricRate, scanned,
                 resampled, writes, hError, hSeries>>

\* doScan returns, line 274.
HyperScanDone ==
  /\ hpc = "scan"
  /\ hpc' = "resample"
  /\ UNCHANGED <<HYPERTABLE_PREFIX, metricData, window, metrics, metricRate, scanned,
                 valuesMap, resampled, writes, hError, hSeries>>

\* One pass of the loop of lines 278-287, for key m.
HyperResample(m) ==
  /\ hpc = "resample"
  /\ m \in DOMAIN valuesMap \ resampled
  /\ LET r == Resample(m)
     IN /\ writes' = writes \cup {[key |-> m, w |-> x] : x \in r.writes}
        /\ hError' = r.error
        /\ IF r.error = "none"
             THEN /\ valuesMap' = [valuesMap EXCEPT ![m] = r.values]
                  /\ resampled' = resampled \cup {m}
                  /\ hpc' = hpc
             ELSE /\ hpc' = "failed"
                  /\ UNCHANGED <<valuesMap, resampled>>
  /\ UNCHANGED <<HYPERTABLE_PREFIX, metricData, window, metrics, metricRate, scanned,
                 hSeries>>

\* Lines 289-295.
HyperReturn ==
  /\ hpc = "resample"
  /\ resampled = DOMAIN valuesMap
  /\ hpc' = "done"
  /\ hSeries' = LET keys == SortedKeys(DOMAIN valuesMap)
                IN [i \in 1..Len(keys) |->
                      TimeSeries(removePrefix(keys[i]), window[1], window[2],
                                 metricRate[keys[i]], valuesMap[keys[i]])]
  /\ UNCHANGED <<HYPERTABLE_PREFIX, metricData, window, metrics, metricRate, scanned,
                 valuesMap, resampled, writes, hError>>

HyperNext ==
  \/ HyperStart
  \/ \E key \in scanned, its \in CellTimes(window), val \in CellValues :
       HyperCell(key, its, val)
  \/ HyperScanDone
  \/ \E m \in DOMAIN valuesMap : HyperResample(m)
  \/ HyperReturn

(***************************************************************************)
(* Store.__init__                                                          *)
(***************************************************************************)
DirNames == {"/data/a", "/data/b"}

\* What is_local_interface (storage.py 126-145) does with a host: binds a
\* port of it ("local"), gets EADDRNOTAVAIL ("remote"), or fails on every
\* port and raises ("unbindable").
HostKinds == {"local", "remote", "unbindable"}

\* The names storage.py binds at module level; __init__ has the locals self,
\* directories and hosts.
ModuleGlobals == {"Store", "Query", "is_local_interface", "find", "_find", "STORE",
                  "LOCAL_STORE", "DATASOURCE_DELIMETER", "settings", "RemoteStore"}
InitLocals == {"self", "directories", "hosts"}
NameDefined(name) == name \in InitLocals \cup ModuleGlobals

\* [host for host in hosts if not is_local_interface(host)], line 36.
RECURSIVE RemoteOnly(_)
RemoteOnly(hs) ==
  IF hs = <<>> THEN <<>>
  ELSE IF Head(hs) = "remote" THEN <<Head(hs)>> \o RemoteOnly(Tail(hs))
  ELSE RemoteOnly(Tail(hs))

CtorIdle ==
  /\ cpc = "off"
  /\ directories = <<>>
  /\ hosts = <<>>
  /\ self_remote_hosts = <<>>
  /\ ctorError = "none"

\* Store(directories, hosts) is called.
CtorInit ==
  /\ cpc = "call"
  /\ directories \in SeqsUpTo(DirNames, NumDirs)
  /\ hosts \in SeqsUpTo(HostKinds, NumPeers)
  /\ self_remote_hosts = <<>>
  /\ ctorError = "none"

\* Lines 35-37.
CtorFilter ==
  /\ cpc = "call"
  /\ IF InList(hosts, "unbindable")
       THEN /\ cpc' = "raised"
            /\ ctorError' = "Exception"
            /\ self_remote_hosts' = self_remote_hosts
       ELSE /\ cpc' = "filtered"
            /\ ctorError' = ctorError
            /\ self_remote_hosts' = RemoteOnly(hosts)
  /\ UNCHANGED <<directories, hosts>>

\* Lines 39-40: "directories or remote_hosts" reads the name remote_hosts
\* only when directories is empty; the name is neither a local of __init__
\* nor a global of the module.
CtorCheck ==
  /\ cpc = "filtered"
  /\ IF directories # <<>>
       THEN cpc' = "built" /\ ctorError' = ctorError
       ELSE IF ~NameDefined("remote_hosts")
         THEN cpc' = "raised" /\ ctorError' = "NameError"
         ELSE cpc' = "raised" /\ ctorError' = "ValueError"
  /\ UNCHANGED <<directories, hosts, self_remote_hosts>>

CtorNext == CtorFilter \/ CtorCheck

(***************************************************************************)
(* find and _find (the finder of one local root)                           *)
(***************************************************************************)
\* An entry name is a sequence of characters; "wsp", "rrd" and "txt" stand
\* for the three characters of an extension.  CharOrder lists them by
\* character code, the order list.sort() compares strings in.
CharOrder == <<"-", ".", "a", "b", "rrd", "txt", "wsp">>
CharRank(c) == CHOOSE i \in 1..Len(CharOrder) : CharOrder[i] = c

DirNameSet == {<<"a">>, <<"b">>, <<".", "a">>}
FileNameSet == {<<"a", ".", "wsp">>, <<"a", "-", "b", ".", "wsp">>, <<".", "b", ".", "wsp">>,
                <<"a", ".", "rrd">>, <<"b", ".", "txt">>}
SmallSubsets(S) == {T \in SUBSET S : Cardinality(T) <= MaxEntries}

\* The patterns drawn: one or two segments, each a name or a wildcard.
SegmentSet == {<<"*">>, <<"a">>}
FinderPatternSet == {<<s>> : s \in SegmentSet} \cup (SegmentSet \X SegmentSet)

\* The data sources rrdtool.info reports for an RRD file.
DataSources == {<<"a">>, <<"b">>}
DATASOURCE_DELIMETER == <<"::RRD_DATASOURCE::">>

\* The tree below root_dir; a path is the sequence of entry names from the
\* root.  Every directory of the root holds the files fsSubFiles.
isdir(path) == path = <<>> \/ (Len(path) = 1 /\ path[1] \in fsDirs)
isfile(path) ==
  \/ Len(path) = 1 /\ path[1] \in fsFiles
  \/ Len(path) = 2 /\ path[1] \in fsDirs /\ path[2] \in fsSubFiles
listdir(path) ==
  IF path = <<>> THEN fsDirs \cup fsFiles
  ELSE IF isdir(path) THEN fsSubFiles
  ELSE {}

\* fnmatch.fnmatch(name, pat) for patterns made of characters and "*": "*"
\* matches any run of characters, a leading "." included.
RECURSIVE fnmatch(_, _)
fnmatch(name, pat) ==
  IF pat = <<>> THEN name = <<>>
  ELSE IF Head(pat) = "*"
    THEN fnmatch(name, Tail(pat)) \/ (name # <<>> /\ fnmatch(Tail(name), pat))
    ELSE name # <<>> /\ Head(name) = Head(pat) /\ fnmatch(Tail(name), Tail(pat))

\* Python's < on strings.
RECURSIVE StrLess(_, _)
StrLess(x, y) ==
  IF y = <<>> THEN FALSE
  ELSE IF x = <<>> THEN TRUE
  ELSE IF Head(x) = Head(y) THEN StrLess(Tail(x), Tail(y))
  ELSE CharRank(Head(x)) < CharRank(Head(y))

\* fnmatch.filter(names, pat) followed by list.sort().
SortedMatches(names, pat) ==
  LET M == {n \in names : fnmatch(n, pat)}
  IN CHOOSE s \in [1..Cardinality(M) -> M] :
       \A i, j \in 1..Cardinality(M) : i < j => StrLess(s[i], s[j])

RECURSIVE Flatten(_)
Flatten(ss) == IF ss = <<>> THEN <<>> ELSE Head(ss) \o Flatten(Tail(ss))

\* _find(current_dir, patterns), storage.py 196-232: the absolute paths it
\* generates, in order.  A path carries the data source pattern line 217
\* glues to it, <<>> when there is none.
RECURSIVE FinderPaths(_, _)
FinderPaths(current_dir, patterns) ==
  LET pat == Head(patterns)
      rest == Tail(patterns)
      entries == listdir(current_dir)
      subdirs == {e \in entries : isdir(Append(current_dir, e))}
      files == {e \in entries : isfile(Append(current_dir, e))}
      matching_subdirs == SortedMatches(subdirs, pat)
      rrd_files == IF Len(rest) = 1 /\ rrdtool
                     THEN SortedMatches(files, pat \o <<".", "rrd">>)
                     ELSE <<>>
      rrd_paths == [i \in 1..Len(rrd_files) |->
                      [path |-> Append(current_dir, rrd_files[i]), datasource |-> rest[1]]]
      matching_files == SortedMatches(files, pat \o <<".", "*">>)
      basenames == matching_subdirs \o matching_files
  IN rrd_paths \o
     (IF rest # <<>>
        THEN Flatten([i \in 1..Len(matching_subdirs) |->
                        FinderPaths(Append(current_dir, matching_subdirs[i]), rest)])
        ELSE [i \in 1..Len(basenames) |->
                [path |-> Append(current_dir, basenames[i]), datasource |-> <<>>]])

basename(path) == path[Len(path)]

\* relative_path.replace('/', '.'), line 163.
RECURSIVE DottedPath(_)
DottedPath(path) ==
  IF Len(path) = 1 THEN path[1] ELSE path[1] \o <<".">> \o DottedPath(Tail(path))

\* os.path.splitext: the extension starts at the last "." that has a
\* character other than "." before it.
ExtStart(s) ==
  LET dots == {i \in 1..Len(s) : s[i] = "." /\ \E j \in 1..(i - 1) : s[j] # "."}
  IN IF dots = {} THEN Len(s) + 1 ELSE CHOOSE i \in dots : \A j \in dots : j <= i
splitext(s) == <<Slice(s, 1, ExtStart(s) - 1), Slice(s, ExtStart(s), Len(s))>>

FinderNode(kind, fs_path, metric_path) ==
  [kind |-> kind, fs_path |-> fs_path, metric_path |-> metric_path]

\* The body of find's loop, storage.py 154-193, for one path of _find: the
\* nodes it yields.  No directory drawn is a Ceres node directory.
NodesFor(p) ==
  LET metric_path == DottedPath(p.path)
      split == splitext(metric_path)
      sources == SortedMatches(DataSources, p.datasource)
  IN IF (IF p.datasource = <<>> THEN basename(p.path)
         ELSE basename(p.path) \o DATASOURCE_DELIMETER \o p.datasource)[1] = "."
       THEN <<>>
     ELSE IF isdir(p.path) THEN <<FinderNode("Branch", p.path, metric_path)>>
     ELSE IF isfile(p.path)
       THEN IF split[2] = <<".", "wsp">>
              THEN <<FinderNode("WhisperFile", p.path, split[1])>>
            ELSE IF split[2] = <<".", "gz">> /\ splitext(split[1])[2] = <<".", "wsp">>
              THEN <<FinderNode("GzippedWhisperFile", p.path, splitext(split[1])[1])>>
            ELSE IF rrdtool /\ split[2] = <<".", "rrd">>
              THEN IF p.datasource = <<>>
                     THEN <<FinderNode("RRDFile", p.path, split[1])>>
                     ELSE [i \in 1..Len(sources) |->
                             FinderNode("RRDDataSource", p.path,
                                        split[1] \o <<".">> \o sources[i])]
            ELSE <<>>
     ELSE <<>>

FinderIdle ==
  /\ fdpc = "off"
  /\ rrdtool = FALSE
  /\ fsDirs = {}
  /\ fsFiles = {}
  /\ fsSubFiles = {}
  /\ pattern_parts = <<>>
  /\ pathIdx = 0
  /\ finderOut = <<>>

\* find(root_dir, query) is called, line 151.
FinderInit ==
  /\ fdpc = "loop"
  /\ rrdtool \in BOOLEAN
  /\ fsDirs \in SmallSubsets(DirNameSet)
  /\ fsFiles \in SmallSubsets(FileNameSet)
  /\ fsSubFiles \in SmallSubsets(FileNameSet)
  /\ pattern_parts \in FinderPatternSet
  /\ pathIdx = 0
  /\ finderOut = <<>>

\* One pass of find's loop: the next path of _find and the nodes it yields.
FinderStep ==
  /\ fdpc = "loop"
  /\ LET paths == FinderPaths(<<>>, pattern_parts)
     IN /\ pathIdx < Len(paths)
        /\ pathIdx' = pathIdx + 1
        /\ finderOut' = finderOut \o NodesFor(paths[pathIdx + 1])
  /\ UNCHANGED <<fdpc, rrdtool, fsDirs, fsFiles, fsSubFiles, pattern_parts>>

\* _find is exhausted.
FinderStop ==
  /\ fdpc = "loop"
  /\ pathIdx = Len(FinderPaths(<<>>, pattern_parts))
  /\ fdpc' = "done"
  /\ UNCHANGED <<rrdtool, fsDirs, fsFiles, fsSubFiles, pattern_parts, pathIdx, finderOut>>

FinderNext == FinderStep \/ FinderStop

(***************************************************************************)
(* Specifications.                                                         *)
(***************************************************************************)
InitMerge == MergeInit /\ TSIdle /\ StoreIdle /\ PoolIdle /\ RecvIdle /\ FetchIdle /\
    HyperIdle /\ CtorIdle /\ FinderIdle
NextMerge == MergeCall /\ UNCHANGED <<tsVars, storeVars, poolVars, recvVars, fetchVars,
    hyperVars, ctorVars, finderVars>>
SpecMerge == InitMerge /\ [][NextMerge]_vars

InitTS == TSInit /\ MergeIdle /\ StoreIdle /\ PoolIdle /\ RecvIdle /\ FetchIdle /\
    HyperIdle /\ CtorIdle /\ FinderIdle
NextTS == TSNext /\ UNCHANGED <<mergeVars, storeVars, poolVars, recvVars, fetchVars,
    hyperVars, ctorVars, finderVars>>
SpecTS == InitTS /\ [][NextTS]_vars

InitStore == StoreInit /\ MergeIdle /\ TSIdle /\ PoolIdle /\ RecvIdle /\ FetchIdle /\
    HyperIdle /\ CtorIdle /\ FinderIdle
NextStore == StoreNext /\ UNCHANGED <<mergeVars, tsVars, poolVars, recvVars, fetchVars,
    hyperVars, ctorVars, finderVars>>
SpecStore == InitStore /\ [][NextStore]_vars

InitPool == PoolInit /\ MergeIdle /\ TSIdle /\ StoreIdle /\ RecvIdle /\ FetchIdle /\
    HyperIdle /\ CtorIdle /\ FinderIdle
NextPool == PoolNext /\ UNCHANGED <<mergeVars, tsVars, storeVars, recvVars, fetchVars,
    hyperVars, ctorVars, finderVars>>
SpecPool == InitPool /\ [][NextPool]_vars

InitRecv == RecvInit /\ MergeIdle /\ TSIdle /\ StoreIdle /\ PoolIdle /\ FetchIdle /\
    HyperIdle /\ CtorIdle /\ FinderIdle
NextRecv == RecvNext /\ UNCHANGED <<mergeVars, tsVars, storeVars, poolVars, fetchVars,
    hyperVars, ctorVars, finderVars>>
SpecRecv == InitRecv /\ [][NextRecv]_vars

InitFetch == FetchInit /\ MergeIdle /\ TSIdle /\ StoreIdle /\ PoolIdle /\ RecvIdle /\
    HyperIdle /\ CtorIdle /\ FinderIdle
NextFetch == FetchNext /\ UNCHANGED <<mergeVars, tsVars, storeVars, poolVars, recvVars,
    hyperVars, ctorVars, finderVars>>
SpecFetch == InitFetch /\ [][NextFetch]_vars

InitHyper == HyperInit /\ MergeIdle /\ TSIdle /\ StoreIdle /\ PoolIdle /\ RecvIdle /\
    FetchIdle /\ CtorIdle /\ FinderIdle
NextHyper == HyperNext /\ UNCHANGED <<mergeVars, tsVars, storeVars, poolVars, recvVars,
    fetchVars, ctorVars, finderVars>>
SpecHyper == InitHyper /\ [][NextHyper]_vars

InitCtor == CtorInit /\ MergeIdle /\ TSIdle /\ StoreIdle /\ PoolIdle /\ RecvIdle /\
    FetchIdle /\ HyperIdle /\ FinderIdle
NextCtor == CtorNext /\ UNCHANGED <<mergeVars, tsVars, storeVars, poolVars, recvVars,
    fetchVars, hyperVars, finderVars>>
SpecCtor == InitCtor /\ [][NextCtor]_vars

InitFinder == FinderInit /\ MergeIdle /\ TSIdle /\ StoreIdle /\ PoolIdle /\ RecvIdle /\
    FetchIdle /\ HyperIdle /\ CtorIdle
NextFinder == FinderNext /\ UNCHANGED <<mergeVars, tsVars, storeVars, poolVars,
    recvVars, fetchVars, hyperVars, ctorVars>>
SpecFinder == InitFinder /\ [][NextFinder]_vars

\* The components side by side: each behaviour runs one of them.
Init == InitMerge \/ InitTS \/ InitStore \/ InitPool \/ InitRecv \/ InitFetch \/
    InitHyper \/ InitCtor \/ InitFinder
Next == NextMerge \/ NextTS \/ NextStore \/ NextPool \/ NextRecv \/ NextFetch \/
    NextHyper \/ NextCtor \/ NextFinder
Spec == Init /\ [][Next]_vars

(***************************************************************************)
(* Claims about mergeResults.                                              *)
(***************************************************************************)
\* The index the claim computes for a cache sample.
SlotOf(sample) ==
  LET timeInfo == dbResults[1]
      start == timeInfo[1]
      step == timeInfo[3]
  IN ((sample[1] - (sample[1] % step)) - start) \div step

InBounds(sample) == SlotOf(sample) >= 0 /\ SlotOf(sample) < Len(dbResults[2])

\* Positions of the cache list whose sample is in bounds and targets slot s.
Targeting(s) ==
  {k \in 1..Len(cacheResults) : InBounds(cacheResults[k]) /\ SlotOf(cacheResults[k]) = s}

MaxOf(S) == CHOOSE x \in S : \A y \in S : y <= x

BothPresent == mpc = "returned" /\ dbResults # Empty /\ cacheResults # <<>>

\* C1: with disk results and cache samples both present, every slot targeted
\* by an in-bounds cache sample holds the value of the last such sample, and
\* every other slot keeps its disk value.
C1_OverlayExact ==
  BothPresent =>
    /\ merged[1] = dbResults[1]
    /\ Len(merged[2]) = Len(dbResults[2])
    /\ \A s \in 0..(Len(dbResults[2]) - 1) :
         IF Targeting(s) # {}
           THEN merged[2][s + 1] = cacheResults[MaxOf(Targeting(s))][2]
           ELSE merged[2][s + 1] = dbResults[2][s + 1]

\* C2: a cache list made only of out-of-bounds samples changes no slot.
C2_OutOfBoundsDropped ==
  (BothPresent /\ \A k \in 1..Len(cacheResults) : ~InBounds(cacheResults[k]))
    => merged = dbResults

\* C15: with an empty cache list mergeResults returns the disk results as
\* they are (same timeInfo, same values), and with no disk results and a
\* non-empty cache list it returns the cache list, same samples in the same
\* order.
C15_EmptyInputIdentity ==
  mpc = "returned" =>
    /\ (cacheResults = <<>> /\ dbResults # Empty) =>
          /\ merged[1] = dbResults[1]
          /\ merged[2] = dbResults[2]
          /\ Len(merged) = 2
    /\ (dbResults = Empty /\ cacheResults # <<>>) =>
          /\ Len(merged) = Len(cacheResults)
          /\ \A k \in 1..Len(cacheResults) : merged[k] = cacheResults[k]

\* Two cache samples came back as they were, out of time order, for a node
\* without disk results.
C15_Witness ==
  /\ mpc = "returned"
  /\ dbResults = Empty
  /\ cacheResults = <<<<40, 9>>, <<5, 8>>>>
  /\ merged = <<<<40, 9>>, <<5, 8>>>>


(***************************************************************************)
(* Claims about TimeSeries iteration.                                      *)
(***************************************************************************)
CeilDiv(n, k) == (n + k - 1) \div k

NumGroups == CeilDiv(Len(tsValues), valuesPerPoint)

\* The raw samples of group j (numbered from 0): j*k .. min((j+1)*k, n)-1.
Group(j) ==
  SubSeq(tsValues, j * valuesPerPoint + 1,
         Min((j + 1) * valuesPerPoint, Len(tsValues)))

NonNull(s) == {i \in 1..Len(s) : s[i] # None}

RECURSIVE SumOver(_, _)
SumOver(s, I) ==
  IF I = {} THEN 0
  ELSE LET i == CHOOSE x \in I : TRUE
       IN s[i][1] + SumOver(s, I \ {i})

\* What the claim says group j yields: the sum or the arithmetic mean of its
\* non-null samples (whole numbers here), null when there is none.
GroupValue(j) ==
  LET g == Group(j)
      I == NonNull(g)
  IN IF I = {} THEN None
     ELSE IF consolidationFunc = "sum" THEN Num(SumOver(g, I))
     ELSE Frac(SumOver(g, I), Cardinality(I))

Consolidating == valuesPerPoint > 1 /\ gen \in {"loop", "tail", "done"}

\* C3: a finished consolidating traversal of n samples has yielded exactly
\* ceil(n/k) values.
C3_YieldsCeilGroups ==
  (Consolidating /\ gen = "done") => Len(out) = NumGroups

\* C4: the j-th value yielded is the sum or mean of the non-null samples of
\* group j alone, null exactly when the whole group is null; a finished
\* traversal has yielded a value for every group.
C4_GroupValues ==
  Consolidating =>
    /\ \A j \in 0..(NumGroups - 1) :
         j < Len(out) =>
           /\ out[j + 1] = GroupValue(j)
           /\ (out[j + 1] = None) <=> (NonNull(Group(j)) = {})
    /\ gen = "done" => Len(out) >= NumGroups

\* A finished traversal whose second group mixes a null and a number and whose
\* first group averages to a fraction.
C4_Witness ==
  /\ gen = "done"
  /\ valuesPerPoint = 2
  /\ consolidationFunc = "average"
  /\ tsValues = ExampleSeries
  /\ Len(out) >= 2
  /\ out[1] = <<3, 2>>
  /\ out[2] = Num(4)

\* What a traversal of a new series with the samples vals and the factor k
\* yields: the samples themselves for k = 1, else what
\* __consolidatingGenerator yields from an empty buffer.
RECURSIVE FreshGenerator(_, _, _, _)
FreshGenerator(rest, k, b, o) ==
  IF rest = <<>>
    THEN Append(o, Consolidate(b))
    ELSE LET appended == Append(b, Head(rest))
         IN IF Len(appended) = k
              THEN FreshGenerator(Tail(rest), k, <<>>, Append(o, Consolidate(appended)))
              ELSE FreshGenerator(Tail(rest), k, appended, o)

FreshTraversal(vals, k) == IF k > 1 THEN FreshGenerator(vals, k, <<>>, <<>>) ELSE vals

\* C16: consolidate(k) and traversals, complete or dropped half-way, leave
\* the stored samples as they were at creation, and a complete traversal
\* yields what a new series with those samples and the current factor yields,
\* whatever factors and traversals came before.
C16_StoredSamplesUntouched ==
  /\ tsValues = created
  /\ gen = "done" => out = FreshTraversal(created, valuesPerPoint)

\* A complete traversal by 2 of the example series, after traversals by 3 and
\* by 1 were dropped half-way.
C16_Witness ==
  /\ gen = "done"
  /\ created = ExampleSeries
  /\ valuesPerPoint = 2
  /\ abandoned = {1, 3}
  /\ Len(out) = 3


(***************************************************************************)
(* Claims about Store.find.                                                *)
(***************************************************************************)
Yielded == yieldedNow # NoNode

\* The step reads a result of a remote request in a wildcard find.
RemoteResultStep == spc = "all_remote" /\ event'.kind = "remote"

\* The step takes a match from a local root's finder in a wildcard find.
LocalMatchStep == spc = "all_local" /\ event'.kind = "local"

C6_LocalAlwaysYielded ==
  [][/\ LocalMatchStep =>
          /\ yieldedNow' = event'.node
          /\ event'.src = dirIdx
          /\ dirIdx' = dirIdx
     /\ spc = "all_local" => dirIdx' \in {dirIdx, dirIdx + 1}
     /\ RemoteResultStep => dirIdx > NumDirs
    ]_vars

\* The second root yields a metric path the first root already yielded.
C6_Witness ==
  /\ spc = "all_local"
  /\ event.kind = "local"
  /\ event.src = 2
  /\ yieldedNow = event.node
  /\ matchedDirs = {1, 2}
  /\ Cardinality(seenNominal) = 1

NoWildcardChars(p) == \A i \in 1..Len(p) : p[i] \notin {"*", "?", "["}

\* C7: for a pattern without '*', '?' and '[' at most one node is yielded and
\* it ends the find; a local match is yielded only when no earlier root
\* matched, requests exist only once every root came up empty, and a remote
\* result is yielded only when no earlier request returned anything.
C7_ExactFirstMatch ==
  [][NoWildcardChars(pattern) =>
       /\ Yielded' => (seenNominal = {} /\ yieldedNow' = event'.node /\ spc' = "done")
       /\ event'.kind = "local" =>
            (Yielded' /\ matchedDirs = {} /\ event'.src = dirIdx /\ ~requested')
       /\ spc = "first_local" => dirIdx' \in {dirIdx, dirIdx + 1}
       /\ requested' => (matchedDirs' = {} /\ dirIdx' > NumDirs)
       /\ event'.kind = "remote" =>
            /\ Yielded'
            /\ answeredPeers = {}
            /\ event'.src = remote_requests[reqIdx]
            /\ \A i \in 1..(reqIdx - 1) : remote_requests[i] < event'.src
       /\ spc = "first_remote" => reqIdx' \in {reqIdx, reqIdx + 1}
    ]_vars

\* An exact find that no root matched and whose second peer answered first.
C7_Witness ==
  /\ pattern = ExactExample
  /\ spc = "done"
  /\ matchedDirs = {}
  /\ event.kind = "remote"
  /\ event.src = 2
  /\ available[1]
  /\ yieldedNow = event.node

WildcardFind == ~isExact(pattern) /\ spc \in {"all_local", "all_remote", "done"}

\* C19: in a wildcard find, once a local root is searched or a node yielded,
\* a find request has been issued to every peer marked available, once, and
\* to no other peer; and a peer's results are read only when every local
\* root has been searched.
C19_RemoteRequestsFirst ==
  /\ WildcardFind =>
       /\ requested
       /\ {remote_requests[i] : i \in 1..Len(remote_requests)} = {r \in Peers : available[r]}
       /\ Len(remote_requests) = Cardinality({r \in Peers : available[r]})
  /\ (~isExact(pattern) /\ (matchedDirs # {} \/ seenNominal # {})) => requested
  /\ (~isExact(pattern) /\ answeredPeers # {}) => dirIdx > NumDirs

\* A wildcard find over a Store whose first peer is available and whose
\* second is not: both roots matched, then the first peer answered.
C19_Witness ==
  /\ ~isExact(pattern)
  /\ spc = "done"
  /\ available[1]
  /\ ~available[2]
  /\ remote_requests = <<1>>
  /\ matchedDirs = Dirs
  /\ answeredPeers = {1}


(***************************************************************************)
(* Claims about CarbonLinkPool.send_request.                               *)
(***************************************************************************)
InAPool(s) == \E h \in Hosts : s \in connections[h]

\* C8: when connect, send or receive fails for caller c on host h, the step
\* sets last_failure[h] to the time of the failure, ends the request with the
\* transport error and leaves the socket in no pool, where it never returns;
\* when the exchange completes, the step puts the socket in the pool of h.
C8_FailureDiscardsSuccessPools ==
  [][/\ \A c \in Callers :
          (lastIO'.caller = c /\ ~lastIO'.ok) =>
             /\ last_failure'[host[c]] = now
             /\ outcome'[c] = "transport_error"
             /\ pc'[c] = "done"
             /\ ~InAPool(conn[c])'
             /\ conn[c] \in discarded'
     /\ \A c \in Callers :
          (lastIO'.caller = c /\ lastIO'.op = "recv" /\ lastIO'.ok) =>
             /\ conn[c] \in connections'[host[c]]
             /\ outcome'[c] \in {"returned", "request_error"}
             /\ last_failure' = last_failure
     /\ \A s \in discarded : ~InAPool(s)'
    ]_vars

\* A receive failed on a socket that had been pooled and reused, after the
\* clock moved on from an earlier failure of the same host.
C8_Witness ==
  /\ lastIO.op = "recv"
  /\ ~lastIO.ok
  /\ \E c \in Callers :
       /\ lastIO.caller = c
       /\ outcome[c] = "transport_error"
       /\ last_failure[host[c]] = MaxTime
       /\ conn[c] \in discarded
       /\ conn[c] < nextSock
       /\ \E s \in Sockets : s # conn[c] /\ s \in connections[host[c]]

\* C14: when the payload recv_response returned to caller c has an 'error'
\* field, the request ends with the request-level error, not with the
\* payload and not with a transport error: no failure time changes and the
\* socket goes to the pool of the caller's host.
C14_ErrorPayloadRaisesRequestError ==
  [][\A c \in Callers :
       (lastIO'.caller = c /\ lastIO'.op = "recv" /\ lastIO'.reply = "error") =>
          /\ outcome'[c] = "request_error"
          /\ last_failure' = last_failure
          /\ conn[c] \in connections'[host[c]]
          /\ conn[c] \notin discarded'
    ]_vars

\* An error payload arrived from a host whose earlier failure stays recorded
\* at its own time.
C14_Witness ==
  /\ lastIO.op = "recv"
  /\ lastIO.reply = "error"
  /\ \E c \in Callers :
       /\ lastIO.caller = c
       /\ outcome[c] = "request_error"
       /\ conn[c] \in connections[host[c]]
       /\ last_failure[host[c]] = 0
       /\ now = MaxTime

InFlight(c) == pc[c] \in {"connect", "send", "recv"}

\* C20: under every interleaving of the callers, no two requests in flight
\* hold the same socket, no socket a request in flight holds is in a pool,
\* and every socket in the pool of host h was opened to h.
C20_SocketsExclusive ==
  /\ \A c1, c2 \in Callers :
       (c1 # c2 /\ InFlight(c1) /\ InFlight(c2)) => conn[c1] # conn[c2]
  /\ \A c \in Callers : InFlight(c) => ~InAPool(conn[c])
  /\ \A h \in Hosts : \A s \in connections[h] : sockHost[s] = h

\* Two callers receive at once from the same host, each on its own socket.
C20_Witness ==
  /\ pc[1] = "recv"
  /\ pc[2] = "recv"
  /\ host[1] = host[2]
  /\ conn[1] # conn[2]
  /\ sockHost[conn[1]] = sockHost[conn[2]]

(***************************************************************************)
(* Claims about recv_exactly and recv_response.                            *)
(***************************************************************************)
RECURSIVE Concat(_)
Concat(ss) == IF ss = <<>> THEN <<>> ELSE Head(ss) \o Concat(Tail(ss))

\* The bytes handed to recv_response so far, by both recv_exactly calls.
Received == Slice(sent, 1, Len(sent) - Len(stream))

\* C9: recv_exactly never holds more than num_bytes; its buffer is the chunks
\* in order; every conn.recv asks for exactly what is missing and gets no more;
\* it fails only on a zero-byte read with bytes still missing; what it returns
\* (the prefix, then the body given to pickle.loads) has exactly the length
\* asked for and is the peer's bytes in order.
C9_ExactlyOrError ==
  /\ rpc \in {"prefix", "body", "failed"} =>
       /\ Len(rbuf) <= num_bytes
       /\ rbuf = Concat(chunks)
       /\ Len(asked) = Len(chunks)
       /\ \A i \in 1..Len(chunks) :
            /\ asked[i] = num_bytes - Len(Concat(Slice(chunks, 1, i - 1)))
            /\ Len(chunks[i]) <= asked[i]
  /\ rpc = "failed" =>
       /\ chunks # <<>>
       /\ chunks[Len(chunks)] = <<>>
       /\ Len(rbuf) < num_bytes
       /\ body = <<>>
  /\ rpc \in {"body", "done"} =>
       /\ Len(len_prefix) = 4
       /\ len_prefix = Slice(sent, 1, 4)
       /\ num_bytes = Unpack(len_prefix)
  /\ rpc = "done" =>
       /\ Len(body) = Unpack(len_prefix)
       /\ body = Slice(sent, 5, 4 + Unpack(len_prefix))
       /\ body = Concat(chunks)
       /\ Received = len_prefix \o body

\* A body of MaxBody bytes that arrived in more than one chunk was returned
\* whole.
C9_Witness ==
  /\ rpc = "done"
  /\ Len(body) = MaxBody
  /\ Len(chunks) > 1

\* The peer closed in the middle of the body: the read failed, nothing was
\* unpickled.
C9_WitnessLost ==
  /\ rpc = "failed"
  /\ len_prefix # <<>>
  /\ Len(rbuf) > 0


(***************************************************************************)
(* Claims about fetchDataLocal.                                            *)
(***************************************************************************)
IsPrefix(p, q) == Len(p) <= Len(q) /\ \A i \in 1..Len(p) : p[i] = q[i]

\* The step is a pass of the loop.
PassStep == fpc = "loop" /\ nodeIdx' = nodeIdx + 1

\* C10: a pass whose cache query raised a transport failure does not abort the
\* fetch; if the disk fetch returned data the pass appends the series made of
\* exactly that data, otherwise it appends nothing; the loop goes on, and the
\* series appended so far all stay in the list that is returned.
C10_CacheFailureFallsBackToDisk ==
  [][/\ (PassStep /\ lastNode'.query = "transport") =>
          /\ fpc' = "loop"
          /\ IF lastNode'.db = Empty
               THEN seriesList' = seriesList
               ELSE seriesList' =
                      Append(seriesList,
                             TimeSeries(lastNode'.metric_path, lastNode'.db[1][1],
                                        lastNode'.db[1][2], lastNode'.db[1][3],
                                        lastNode'.db[2]))
     /\ IsPrefix(seriesList, seriesList')
    ]_vars

\* The first node's cache query failed and its disk data became a series; the
\* second node was merged with its cache and both were returned.
C10_Witness ==
  /\ fpc = "done"
  /\ queryLog = <<"transport", "ok">>
  /\ Len(seriesList) = 2
  /\ seriesList[1].values = <<1, 2>>
  /\ seriesList[2].values = <<1, 8, 1>>

\* C21: whatever the disk fetch and the cache query of a node give, the pass
\* either appends one TimeSeries whose start, end, step and values come from
\* a (timeInfo, values) pair of that node, or skips the node, and the loop
\* goes on to the next node.
C21_NeverFailsOnData ==
  [][PassStep =>
       /\ fpc' = "loop"
       /\ \/ seriesList' = seriesList
          \/ /\ lastNode'.db # Empty
             /\ Len(seriesList') = Len(seriesList) + 1
             /\ IsPrefix(seriesList, seriesList')
             /\ LET s == seriesList'[Len(seriesList')]
                IN /\ s.name = lastNode'.metric_path
                   /\ <<s.start, s.end, s.step>> = lastNode'.db[1]
                   /\ Len(s.values) = Len(lastNode'.db[2])
    ]_vars

(***************************************************************************)
(* Claims about fetchDataFromHyperTable.                                   *)
(***************************************************************************)
WindowSteps(rate) == (window[2] - window[1]) \div rate

\* C11: every sample the scan returned is written to bucket
\* min(round((timestamp - start) / rate), steps - 1) with
\* steps = (end - start) / rate, that index lies within 0..steps-1, and no
\* sample makes the fetch fail with an index outside the array.
C11_BucketsInRange ==
  /\ hError # "IndexError"
  /\ \A e \in writes :
       /\ e.w.steps = WindowSteps(e.w.rate)
       /\ e.w.bucket = Min(Round(e.w.its - window[1], e.w.rate), e.w.steps - 1)
       /\ 0 <= e.w.bucket
       /\ e.w.bucket <= e.w.steps - 1

Rateless == {metricData[i][1] : i \in {j \in 1..Len(metricData) : metricData[j][2] = NoRate}}
Rated == {metricData[i][1] : i \in {j \in 1..Len(metricData) : metricData[j][2] # NoRate}}
Returned(n) == \E i \in 1..Len(hSeries) : hSeries[i].name = n

CtorEnded == cpc \in {"built", "raised"} /\ ~InList(hosts, "unbindable")

\* C13: constructing a Store fails, with the configuration error, exactly
\* when it has no local directory and no remote peer; with a remote peer and
\* no directory, or a directory and no peer, it is constructed.
C13_FailsIffNothingConfigured ==
  CtorEnded =>
    /\ cpc = "raised" <=> (directories = <<>> /\ ~InList(hosts, "remote"))
    /\ cpc = "raised" => ctorError = "ValueError"

(***************************************************************************)
(* Claims about the finder.                                                *)
(***************************************************************************)
\* C17: no node the finder yields has a path component below the root that
\* begins with ".", the final entry and the directories above it alike.
C17_NoDotEntries ==
  \A i \in 1..Len(finderOut) :
    \A k \in 1..Len(finderOut[i].fs_path) : finderOut[i].fs_path[k][1] # "."

\* The path segments of a yielded node: its metric path split at the
\* separators of its entries.
NodeSegments(n) ==
  IF n.kind = "Branch" THEN n.fs_path
  ELSE [k \in 1..Len(n.fs_path) |->
          IF k < Len(n.fs_path) THEN n.fs_path[k]
          ELSE splitext(n.fs_path[k])[1]]

RECURSIVE SegmentsLess(_, _)
SegmentsLess(x, y) ==
  IF y = <<>> THEN FALSE
  ELSE IF x = <<>> THEN TRUE
  ELSE IF Head(x) = Head(y) THEN SegmentsLess(Tail(x), Tail(y))
  ELSE StrLess(Head(x), Head(y))

\* C18: of two nodes the finder yields, the one whose sequence of path
\* segments is smaller is yielded first.
C18_YieldedInSegmentOrder ==
  \A i, j \in 1..Len(finderOut) :
    i < j => ~SegmentsLess(NodeSegments(finderOut[j]), NodeSegments(finderOut[i]))

=============================================================================
